---------------------------- MODULE Spec2Model ----------------------------
(***************************************************************************)
(* A model of the simulation round engine of UseCaseSimulator:             *)
(*   modules/core/event_manager.py     EventManager                        *)
(*   modules/core/round_manager.py     RoundManager                        *)
(*   modules/core/company.py           Company and its managers            *)
(*   modules/core/market.py            Market, CompetitorAI, TrendAnalyzer *)
(*   modules/core/simulation_engine.py SimulationEngine                    *)
(*                                                                         *)
(* Numbers.  The program computes in floating point; the model computes in *)
(* integers of a fixed unit per quantity, and the inputs are chosen so     *)
(* that the divisions the code makes are exact in these units:             *)
(*   ratios in [0,1] (market_share, quality, efficiency, utilization,      *)
(*     customer_satisfaction, competition_intensity)  1/10000  (BP)      *)
(*   event impacts, probabilities, decision impacts,                       *)
(*     profit_margin, roi                             hundredths           *)
(*   trend factors                                    thousandths          *)
(*   brand_value                                      ten-thousandths      *)
(*   competitor prices                                thousandths          *)
(*   money, capacity, demand, player prices           units                *)
(* The rounding of the last bit of a floating-point sum is not modelled.   *)
(*                                                                         *)
(* Objects.  Python containers are shared by reference.  A variable of the *)
(* model holds the content of one live object; a dictionary that to_dict   *)
(* builds from numbers is a value, a list or dictionary it passes on       *)
(* unchanged is a reference to the live object (see SnapshotView).         *)
(***************************************************************************)
EXTENDS Integers, Sequences, FiniteSets, TLC

VARIABLES
    \* ---- RoundManager
    max_rounds,          \* RoundManager.max_rounds (SimulationConfig.max_rounds)
    current_round,       \* RoundManager.current_round
    \* ---- EventManager
    active_events,       \* EventManager.active_events
    event_history,       \* EventManager.event_history
    event_definitions,   \* EventManager.event_definitions, in insertion order
    \* ---- SimulationEngine
    initialized,         \* SimulationEngine.current_state is not None
    state,               \* current_state: round_number, events, kpis, competitors
    company,             \* current_state.player_company: the four attribute groups
    decision_history,    \* player_company.decision_manager.decision_history
    performance_history, \* player_company.performance_history
    market,              \* current_state.market
    simulation_history,  \* SimulationEngine.simulation_history
    result,              \* what the last call returned or raised
    \* ---- web_ui
    session,             \* the server-side session: 'engine' and 'game_state'
    requests,            \* the process-decision requests being handled
    \* ---- bookkeeping of the verification (not program state)
    ghost

vars == <<max_rounds, current_round, active_events, event_history,
          event_definitions, initialized, state, company, decision_history,
          performance_history, market, simulation_history, result,
          session, requests, ghost>>

---------------------------------------------------------------------------
\* Bounds of the model

\* max_rounds is drawn from 1..MaxRoundsBound when the engine is constructed
MaxRoundsBound == 2
\* run_round calls made after one initialize_simulation
MaxCalls == 3
\* length of EventManager.event_history
MaxEventHistory == 1
\* operations on a stand-alone EventManager
MaxOps == 4
\* operations on a stand-alone Company
MaxCompanyOps == 3

---------------------------------------------------------------------------
\* Units

\* one, for the ratios
BP == 10000

Min(a, b) == IF a < b THEN a ELSE b
Max(a, b) == IF a > b THEN a ELSE b
Abs(a) == IF a < 0 THEN -a ELSE a

\* the elements of sequence s that are not at index i
RemoveAt(s, i) == SubSeq(s, 1, i - 1) \o SubSeq(s, i + 1, Len(s))

RECURSIVE SumOver(_, _)
\* the sum of f[x] over the finite set S
SumOver(S, f) ==
    IF S = {} THEN 0
    ELSE LET x == CHOOSE y \in S : TRUE IN f[x] + SumOver(S \ {x}, f)

---------------------------------------------------------------------------
\* event_manager.py: the event definitions

\* the insertion order of the event_definitions dictionary
EventOrder == <<"market_crash", "tech_breakthrough", "regulatory_change",
                "economic_boom">>

EventIds == {EventOrder[i] : i \in 1..Len(EventOrder)}

NoConditions == [k \in {} |-> 0]

EventDefinitions ==
    [market_crash |->
        [id |-> "market_crash", type |-> "random", probability |-> 10,
         impact |-> [revenue |-> -30, market_share |-> -10],
         duration |-> 2, conditions |-> NoConditions],
     tech_breakthrough |->
        [id |-> "tech_breakthrough", type |-> "random", probability |-> 15,
         impact |-> [efficiency |-> 20, costs |-> -10],
         duration |-> 3, conditions |-> NoConditions],
     regulatory_change |->
        [id |-> "regulatory_change", type |-> "scheduled", probability |-> 100,
         impact |-> [costs |-> 15],
         duration |-> 1, conditions |-> [round |-> 5]],
     economic_boom |->
        [id |-> "economic_boom", type |-> "random", probability |-> 20,
         impact |-> [demand |-> 25, revenue |-> 15],
         duration |-> 2, conditions |-> NoConditions]]

\* the event_definitions dictionary _load_default_events builds
DefaultEvents == [i \in 1..Len(EventOrder) |-> EventDefinitions[EventOrder[i]]]

\* Event.to_dict: the name and description strings are left out
EventToDict(event) ==
    [id |-> event.id, type |-> event.type, probability |-> event.probability,
     impact |-> event.impact, duration |-> event.duration,
     conditions |-> event.conditions]

\* _check_conditions with <= for < in the min_round test
CheckConditionsMinExclusive(conditions, round_number) ==
    /\ ("round" \in DOMAIN conditions => round_number = conditions["round"])
    /\ ("min_round" \in DOMAIN conditions => round_number > conditions["min_round"])
    /\ ("max_round" \in DOMAIN conditions => round_number <= conditions["max_round"])

\* EventManager._check_conditions
CheckConditions(conditions, round_number) ==
    /\ ("round" \in DOMAIN conditions => round_number = conditions["round"])
    /\ ("min_round" \in DOMAIN conditions => round_number >= conditions["min_round"])
    /\ ("max_round" \in DOMAIN conditions => round_number <= conditions["max_round"])

\* generate_random_events: rolls is the set of definitions whose
\* random.random() < probability draw succeeded
GenerateRandomEvents(definitions, round_number, rolls) ==
    SelectSeq(definitions,
              LAMBDA event : /\ event.type = "random"
                             /\ CheckConditions(event.conditions, round_number)
                             /\ event.id \in rolls)

\* process_scheduled_events returning every SCHEDULED definition, whatever
\* its conditions
ProcessScheduledEventsUnconditional(definitions, round_number) ==
    SelectSeq(definitions, LAMBDA event : event.type = "scheduled")

ProcessScheduledEvents(definitions, round_number) ==
    SelectSeq(definitions,
              LAMBDA event : /\ event.type = "scheduled"
                             /\ CheckConditions(event.conditions, round_number))

\* add_custom_event: self.event_definitions[event.id] = event; an id the
\* dictionary already has keeps its place
AddCustomEvent(definitions, event) ==
    IF \E i \in 1..Len(definitions) : definitions[i].id = event.id
    THEN [i \in 1..Len(definitions) |->
            IF definitions[i].id = event.id THEN event ELSE definitions[i]]
    ELSE Append(definitions, event)

\* remove_event
RemoveEvent(definitions, event_id) ==
    SelectSeq(definitions, LAMBDA event : event.id # event_id)

\* EventManager.reset keeping the event history
EventManagerResetActiveOnly(em) == [em EXCEPT !.active = <<>>]

\* EventManager.reset on <<active_events, event_history, event_definitions>>
EventManagerReset(em) == [em EXCEPT !.active = <<>>, !.history = <<>>]

\* the event_data dictionary trigger_event builds
EventData(event, round_number) ==
    [event |-> EventToDict(event), triggered_round |-> round_number,
     remaining_duration |-> event.duration, effects_applied |-> FALSE]

\* the event_history record trigger_event builds (the timestamp is left out)
HistoryRecord(event, round_number) ==
    [event_id |-> event.id, triggered_round |-> round_number]

\* trigger_event on the pair <<active_events, event_history>>
TriggerEvent(em, event, round_number) ==
    [active |-> Append(em.active, EventData(event, round_number)),
     history |-> Append(em.history, HistoryRecord(event, round_number))]

RECURSIVE TriggerAll(_, _, _)
\* the loop of run_round over random_events + scheduled_events
TriggerAll(em, events, round_number) ==
    IF events = <<>> THEN em
    ELSE TriggerAll(TriggerEvent(em, Head(events), round_number),
                    Tail(events), round_number)

\* list.remove(x): the first element equal to x is removed
FirstIndexOf(s, x) == CHOOSE i \in 1..Len(s) : s[i] = x /\ \A j \in 1..(i - 1) : s[j] # x

ListRemove(s, x) == RemoveAt(s, FirstIndexOf(s, x))

\* process_active_events with < for <=
ExpiresLate(event_data) == event_data.remaining_duration < 0

\* whether process_active_events takes an instance out of the active list
Expires(event_data) == event_data.remaining_duration <= 0

RECURSIVE ProcessLoop(_, _, _)
\* the loop of process_active_events: cur is the live list, p the place in it
\* of the next element of the copy being iterated, expired the list returned
ProcessLoop(cur, p, expired) ==
    IF p > Len(cur) THEN [active |-> cur, expired |-> expired]
    ELSE LET event_data == [cur[p] EXCEPT !.remaining_duration = @ - 1]
             dec == [cur EXCEPT ![p] = event_data]
         IN IF Expires(event_data)
            THEN LET r == FirstIndexOf(dec, event_data)
                 IN ProcessLoop(RemoveAt(dec, r), IF r <= p THEN p ELSE p + 1,
                                Append(expired, event_data))
            ELSE ProcessLoop(dec, p + 1, expired)

ProcessActiveEvents(active) == ProcessLoop(active, 1, <<>>)

\* get_active_event_impacts with = for +=
AddImpactOverwrite(total, metric, impact) ==
    IF metric \in DOMAIN total
    THEN [total EXCEPT ![metric] = impact]
    ELSE total @@ (metric :> impact)

\* get_active_event_impacts adding only to a key that is absent
AddImpactFirstWins(total, metric, impact) ==
    IF metric \in DOMAIN total
    THEN total
    ELSE total @@ (metric :> impact)

\* total_impacts[metric] += impact, after the key was set to 0.0 if absent
AddImpact(total, metric, impact) ==
    IF metric \in DOMAIN total
    THEN [total EXCEPT ![metric] = @ + impact]
    ELSE total @@ (metric :> 0 + impact)

RECURSIVE AddImpacts(_, _, _)
\* the inner loop of get_active_event_impacts over the keys of one event
AddImpacts(total, impacts, keys) ==
    IF keys = {} THEN total
    ELSE LET metric == CHOOSE k \in keys : TRUE
         IN AddImpacts(AddImpact(total, metric, impacts[metric]), impacts,
                       keys \ {metric})

RECURSIVE ImpactsLoop(_, _)
ImpactsLoop(total, active) ==
    IF active = <<>> THEN total
    ELSE ImpactsLoop(AddImpacts(total, Head(active).event.impact,
                                DOMAIN Head(active).event.impact),
                     Tail(active))

NoImpacts == [k \in {} |-> 0]

GetActiveEventImpacts(active) == ImpactsLoop(NoImpacts, active)

---------------------------------------------------------------------------
\* Decision parameters: a value is a number or something that is not one

Num(x) == [isnum |-> TRUE, v |-> x]
NotNum == [isnum |-> FALSE, v |-> 0]

NoParams == [k \in {} |-> NotNum]
NoDecisions == [k \in {} |-> NoParams]

\* params.get(key, default)
ParamGet(params, key, default) ==
    IF key \in DOMAIN params THEN params[key] ELSE Num(default)

---------------------------------------------------------------------------
\* round_manager.py

\* advance_round without `if self.current_round < self.max_rounds`
AdvanceRoundUnclamped(cur, maxr) == cur + 1

AdvanceRound(cur, maxr) == IF cur < maxr THEN cur + 1 ELSE cur

\* RoundManager.reset
RoundManagerReset(cur) == 0

\* is_simulation_over with > for >=
IsSimulationOverStrict(cur, maxr) == cur > maxr

IsSimulationOver(cur, maxr) == cur >= maxr

\* _process_pricing_decision; price / 100.0 raises TypeError on a non-number
ProcessPricingDecision(params) ==
    LET price == ParamGet(params, "price", 100)
    IN IF ~price.isnum THEN [raised |-> TRUE]
       ELSE [raised |-> FALSE,
             value |-> [price |-> price.v, impact |-> Max(50, Min(150, price.v))]]

\* _process_investment_decision; amount * 0.1 raises TypeError on a non-number
ProcessInvestmentDecision(params) ==
    LET amount == ParamGet(params, "amount", 0)
    IN IF ~amount.isnum THEN [raised |-> TRUE]
       ELSE [raised |-> FALSE,
             value |-> [amount |-> amount.v, impact |-> amount.v * 10]]

\* _process_marketing_decision; budget / 10000.0 raises TypeError on a non-number
ProcessMarketingDecision(params) ==
    LET budget == ParamGet(params, "budget", 0)
    IN IF ~budget.isnum THEN [raised |-> TRUE]
       ELSE [raised |-> FALSE,
             value |-> [budget |-> budget.v, impact |-> Min(50, budget.v \div 100)]]

\* process_decisions raising on a kind it does not know
ProcessOneDecisionStrict(decision_type, params) ==
    CASE decision_type = "pricing" -> ProcessPricingDecision(params)
      [] decision_type = "investment" -> ProcessInvestmentDecision(params)
      [] decision_type = "marketing" -> ProcessMarketingDecision(params)
      [] OTHER -> [raised |-> TRUE]

\* process_decisions: one pass of its loop
ProcessOneDecision(decision_type, params) ==
    CASE decision_type = "pricing" -> ProcessPricingDecision(params)
      [] decision_type = "investment" -> ProcessInvestmentDecision(params)
      [] decision_type = "marketing" -> ProcessMarketingDecision(params)
      [] OTHER -> [raised |-> FALSE, value |-> [status |-> "unknown_decision_type"]]

\* process_decisions: raises when one of its three handlers raises
ProcessDecisions(decisions, cur) ==
    IF \E k \in DOMAIN decisions : ProcessOneDecision(k, decisions[k]).raised
    THEN [raised |-> TRUE]
    ELSE [raised |-> FALSE,
          value |-> [decisions_processed |-> Cardinality(DOMAIN decisions),
                     round |-> cur,
                     results |-> [k \in DOMAIN decisions |->
                                    ProcessOneDecision(k, decisions[k]).value]]]

\* calculate_round_results (the summary string is left out)
CalculateRoundResults(cur, processed) ==
    LET base_revenue == 100000
        base_costs == 80000
        rev1 == IF "pricing" \in DOMAIN processed.results
                THEN (base_revenue * processed.results["pricing"].impact) \div 100
                ELSE 0
        rev2 == IF "marketing" \in DOMAIN processed.results
                THEN (rev1 * (100 + processed.results["marketing"].impact)) \div 100
                ELSE rev1
    IN [round |-> cur, revenue |-> rev2, costs |-> base_costs,
        profit |-> rev2 - base_costs, market_share |-> 1500,
        customer_satisfaction |-> 7500]

---------------------------------------------------------------------------
\* company.py

RequiredParams ==
    [price_change |-> {"new_price"},
     capacity_expansion |-> {"expansion_amount"},
     marketing_campaign |-> {"budget"},
     quality_improvement |-> {"investment"},
     hiring |-> {"num_employees"},
     equipment_purchase |-> {"equipment_value"}]

\* _validate_decision without the loop over the required parameters
ValidateKindOnly(decision_type, params) ==
    decision_type \in DOMAIN RequiredParams

ValidateDecision(decision_type, params) ==
    /\ decision_type \in DOMAIN RequiredParams
    /\ \A param \in RequiredParams[decision_type] : param \in DOMAIN params

\* the decision record DecisionManager.make_decision appends (no timestamp)
DecisionRecord(decision_type, params) ==
    [type |-> decision_type, params |-> params,
     round |-> ParamGet(params, "round", 0)]

\* update_quality raising efficiency too, as update_efficiency does
UpdateQualityAndEfficiency(c, quality_investment) ==
    LET improvement == Min(quality_investment \div 5, 1000)
    IN [c EXCEPT !.operations_data.quality = Min(BP, @ + improvement),
                 !.operations_data.efficiency = Min(BP, @ + improvement)]

\* OperationsManager.update_quality
UpdateQuality(c, quality_investment) ==
    LET improvement == Min(quality_investment \div 5, 1000)
    IN [c EXCEPT !.operations_data.quality = Min(BP, @ + improvement)]

\* Company._apply_decision_impact, for numeric parameters
ApplyDecisionImpact(c, decision_type, params) ==
    CASE decision_type = "price_change" -> c
      [] decision_type = "capacity_expansion" ->
            [c EXCEPT !.operations_data.capacity = @ + params["expansion_amount"].v]
      [] decision_type = "marketing_campaign" ->
            [c EXCEPT !.market_data.brand_value = @ + params["budget"].v,
                      !.market_data.market_share =
                            Min(5000, @ + params["budget"].v \div 100)]
      [] decision_type = "quality_improvement" ->
            UpdateQuality(c, params["investment"].v)
      [] decision_type = "hiring" ->
            [c EXCEPT !.resource_data.employees = @ + params["num_employees"].v]
      [] decision_type = "equipment_purchase" ->
            [c EXCEPT !.resource_data.equipment = @ + params["equipment_value"].v]
      [] OTHER -> c

\* whether _apply_decision_impact raises TypeError: arithmetic on a parameter
\* that is not a number
ImpactRaises(decision_type, params) ==
    /\ decision_type # "price_change"
    /\ \E param \in RequiredParams[decision_type] : ~params[param].isnum

\* Company.make_decision on <<company, decision_history>>
MakeDecision(c, log, decision_type, params) ==
    IF ~ValidateDecision(decision_type, params)
    THEN [company |-> c, log |-> log, returned |-> "False"]
    ELSE IF ImpactRaises(decision_type, params)
    THEN [company |-> c,
          log |-> Append(log, DecisionRecord(decision_type, params)),
          returned |-> "TypeError"]
    ELSE [company |-> ApplyDecisionImpact(c, decision_type, params),
          log |-> Append(log, DecisionRecord(decision_type, params)),
          returned |-> "True"]

\* OperationsManager.calculate_utilization
CalculateUtilization(capacity, demand, market_share) ==
    IF capacity > 0 THEN Min(BP, (demand * market_share) \div capacity) ELSE 0

\* OperationsManager.update_customer_satisfaction
CustomerSatisfaction(quality, price, market_price) ==
    LET price_factor == BP - (Abs(price - market_price) * BP) \div market_price
    IN Min(BP, (quality + price_factor) \div 2)

\* FinancialManager.calculate_revenue
CalculateRevenue(market_demand, price, market_share) ==
    (price * ((market_demand * market_share) \div 100)) \div 100

\* FinancialManager.calculate_costs
CalculateCosts(operations_data, resource_data) ==
    LET operational_costs ==
            (operations_data.capacity * operations_data.utilization) \div 200
        employee_costs == resource_data.employees * 50000
        equipment_maintenance == resource_data.equipment \div 20
        inventory_holding == resource_data.inventory \div 50
    IN operational_costs + employee_costs + equipment_maintenance + inventory_holding

\* update_financials without the assignment to profit
UpdateFinancialsStaleProfit(f, revenue, costs) ==
    LET cash_flow == (revenue - costs) - f.assets \div 10
    IN [f EXCEPT !.revenue = revenue, !.costs = costs,
                 !.cash_flow = cash_flow, !.cash = @ + cash_flow]

\* FinancialManager.update_financials
UpdateFinancials(f, revenue, costs) ==
    LET profit == revenue - costs
        cash_flow == profit - f.assets \div 10
    IN [f EXCEPT !.revenue = revenue, !.costs = costs, !.profit = profit,
                 !.cash_flow = cash_flow, !.cash = @ + cash_flow]

\* the record _record_performance appends (no timestamp)
PerformanceRecord(c) ==
    [revenue |-> c.financial_data.revenue, profit |-> c.financial_data.profit,
     market_share |-> c.market_data.market_share,
     customer_satisfaction |-> c.operations_data.customer_satisfaction,
     efficiency |-> c.operations_data.efficiency]

\* the length performance_history is kept to
PerformanceWindow == 50

RecordPerformance(history, c) ==
    LET h == Append(history, PerformanceRecord(c))
    IN IF Len(h) > PerformanceWindow THEN Tail(h) ELSE h

\* Company.update_state on the attribute groups; conditions holds
\* demand_level, price_index (hundredths) and market_price
UpdateState(c, conditions) ==
    LET demand == conditions.demand_level
        price == conditions.price_index
        market_price == conditions.market_price
        utilization == CalculateUtilization(c.operations_data.capacity, demand,
                                            c.market_data.market_share)
        satisfaction == CustomerSatisfaction(c.operations_data.quality, price,
                                             market_price)
        ops == [c.operations_data EXCEPT !.utilization = utilization,
                                         !.customer_satisfaction = satisfaction]
        revenue == CalculateRevenue(demand, price, c.market_data.market_share)
        costs == CalculateCosts(ops, c.resource_data)
    IN [c EXCEPT !.operations_data = ops,
                 !.financial_data = UpdateFinancials(@, revenue, costs)]

\* Company.get_kpis
GetKpis(c) ==
    [revenue |-> c.financial_data.revenue,
     profit_margin |-> IF c.financial_data.revenue > 0
                       THEN (c.financial_data.profit * 100) \div c.financial_data.revenue
                       ELSE 0,
     market_share |-> c.market_data.market_share,
     roi |-> IF c.financial_data.assets > 0
             THEN (c.financial_data.profit * 100) \div c.financial_data.assets
             ELSE 0,
     customer_satisfaction |-> c.operations_data.customer_satisfaction,
     operational_efficiency |-> c.operations_data.efficiency,
     capacity_utilization |-> c.operations_data.utilization,
     brand_value |-> c.market_data.brand_value]

\* SimulationEngine._create_initial_company
InitialCompany ==
    [financial_data |-> [revenue |-> 100000, costs |-> 80000, profit |-> 20000,
                         cash_flow |-> 0, assets |-> 200000,
                         liabilities |-> 150000, cash |-> 50000],
     operations_data |-> [capacity |-> 1000, efficiency |-> 8000,
                          quality |-> 7500, customer_satisfaction |-> 7000,
                          utilization |-> 0],
     resource_data |-> [employees |-> 100, equipment |-> 100000,
                        inventory |-> 50000],
     market_data |-> [market_share |-> 1500, brand_value |-> 500000,
                      competitive_position |-> 5000]]

---------------------------------------------------------------------------
\* market.py

\* SimulationConfig.num_competitors
NumCompetitors == 3

\* SimulationConfig.initial_market_demand
InitialMarketDemand == 1000

RECURSIVE Gcd(_, _)
Gcd(a, b) == IF b = 0 THEN a ELSE Gcd(b, a % b)

\* a fraction num / den, den > 0, in lowest terms
Fraction(num, den) ==
    LET g == Gcd(Abs(num), den)
    IN [num |-> num \div g, den |-> den \div g]

FractionLess(a, b) == a.num * b.den < b.num * a.den

\* the square root of a perfect square
Sqrt(x) == CHOOSE r \in 0..x : r * r = x

\* (price / base_price) ** price_elasticity with a positive elasticity, 1.5
PriceEffectRising(price) == Fraction(price * Sqrt(price), 1000)

\* DemandCalculator.calculate_demand: (price / base_price) ** price_elasticity
\* for base_price 100.0 and the default price_elasticity -1.5, as the exact
\* fraction 1000 / price^1.5; price is a perfect square
PriceEffect(price) == Fraction(1000, price * Sqrt(price))

\* DemandCalculator._calculate_economic_multiplier (thousandths)
EconomicMultiplier(market_state) ==
    LET gdp_effect == 1000 + market_state.economic_indicators.gdp_growth
        inflation_effect == 1000 - market_state.economic_indicators.inflation \div 2
        interest_effect ==
            1000 - (market_state.economic_indicators.interest_rate * 3) \div 10
    IN (((gdp_effect * inflation_effect) \div 1000) * interest_effect) \div 1000

\* DemandCalculator._calculate_trend_effect (thousandths)
TrendEffect(market_state) == 1000 + market_state.trend_factors.trend

\* DemandCalculator._calculate_company_effect (thousandths); quality and
\* customer_satisfaction in ten-thousandths, brand_value in units
CompanyEffect(company_factors) ==
    LET get(key, default) == IF key \in DOMAIN company_factors
                             THEN company_factors[key] ELSE default
        quality_effect == 1000 + (get("quality", 7500) - 7500) \div 20
        brand_effect == 1000 + get("brand_value", 50) * 3
        satisfaction_effect ==
            1000 + (get("customer_satisfaction", 7000) - 7000) \div 25
    IN (((quality_effect * brand_effect) \div 1000) * satisfaction_effect) \div 1000

\* DemandCalculator.calculate_demand, the demand as an exact fraction: the
\* factors that do not depend on the price are rounded to units of demand,
\* the price effect is exact
CalculateDemand(price, market_state, company_factors) ==
    LET economic_multiplier == EconomicMultiplier(market_state)
        price_effect == PriceEffect(price)
        trend_effect == TrendEffect(market_state)
        company_effect == CompanyEffect(company_factors)
        seasonal_effect == 1000 + market_state.trend_factors.seasonal
        cyclical_effect == 1000 + market_state.trend_factors.cyclical
        competition_effect == 1000 - market_state.competition_intensity \div 50
        d1 == (InitialMarketDemand * economic_multiplier) \div 1000
        d2 == (d1 * trend_effect) \div 1000
        d3 == (d2 * company_effect) \div 1000
        d4 == (d3 * seasonal_effect) \div 1000
        d5 == (d4 * cyclical_effect) \div 1000
        d6 == (d5 * competition_effect) \div 1000
    IN Fraction(Max(0, d6) * price_effect.num, price_effect.den)

\* CompetitorAI._initialize_competitors: the strategy archetypes (hundredths)
Strategies ==
    <<[name |-> "Cost_Leader", aggressiveness |-> 80, price_sensitivity |-> 90,
       innovation_focus |-> 30],
      [name |-> "Quality_Focused", aggressiveness |-> 50, price_sensitivity |-> 60,
       innovation_focus |-> 80],
      [name |-> "Balanced", aggressiveness |-> 60, price_sensitivity |-> 70,
       innovation_focus |-> 50]>>

\* the random.uniform(-0.1, 0.1) draws of _initialize_competitors (hundredths);
\* one draw is used for the four perturbed attributes of every competitor
Perturbations == {-5, 5}

\* CompetitorAI._initialize_competitors; last_decision is <<>> for None
InitializeCompetitors(n, pert) ==
    [i \in 1..n |->
        LET strategy == Strategies[((i - 1) % Len(Strategies)) + 1]
        IN [id |-> i, strategy |-> strategy.name,
            aggressiveness |-> strategy.aggressiveness + pert,
            price_sensitivity |-> strategy.price_sensitivity + pert,
            innovation_focus |-> strategy.innovation_focus + pert,
            market_share |-> 2500 \div n,
            price |-> 100000,
            quality |-> 7000 + pert * 100,
            last_decision |-> <<>>]]

\* CompetitorAI._decide_competitor_action: player_price in thousandths,
\* quality_roll is whether random.random() < 0.2 came out true
DecideCompetitorAction(competitor, player_price, player_market_share, quality_roll) ==
    LET price_gap == player_price - competitor.price
        price_change ==
            IF Abs(price_gap) > 5000
            THEN IF competitor.price_sensitivity > 70
                 THEN (-price_gap * 30 * competitor.aggressiveness) \div 10000
                 ELSE IF competitor.strategy = "Cost_Leader"
                      THEN (-price_gap * 5) \div 10
                      ELSE 0
            ELSE 0
        quality_change ==
            IF competitor.innovation_focus > 60 /\ quality_roll
            THEN 5 * competitor.innovation_focus
            ELSE 0
        aggressive_move ==
            IF player_market_share * 10 > competitor.market_share * 12
            THEN 10 * competitor.aggressiveness
            ELSE 0
    IN [price_change |-> price_change, quality_change |-> quality_change,
        aggressive_move |-> aggressive_move]

\* CompetitorAI._apply_competitor_actions for one competitor
ApplyCompetitorAction(competitor, action) ==
    LET share_change == action.aggressive_move \div 50
    IN [competitor EXCEPT
            !.price = @ + action.price_change,
            !.quality = Min(BP, @ + action.quality_change),
            !.market_share = Max(100, Min(5000, @ + share_change)),
            !.last_decision = <<action>>]

\* CompetitorAI.update_competitor_actions: rolls is the set of competitors
\* whose quality draw succeeded.  Returns the competitors and the
\* price_pressure impact (the two other impacts are returned by the code and
\* read by nobody).
UpdateCompetitorActions(competitors, player_price, player_market_share, rolls) ==
    LET action(i) == DecideCompetitorAction(competitors[i], player_price,
                                            player_market_share, i \in rolls)
        pressure == [i \in DOMAIN competitors |->
                        action(i).price_change * competitors[i].market_share]
    IN [competitors |-> [i \in DOMAIN competitors |->
                            ApplyCompetitorAction(competitors[i], action(i))],
        price_pressure |-> SumOver(DOMAIN competitors, pressure)]

\* TrendAnalyzer._generate_seasonal_patterns (thousandths)
SeasonalPatterns == <<-100, -150, -50, 0, 50, 100, 150, 100, 50, 0, 100, 200>>

\* TrendAnalyzer._calculate_cyclical_component: positions 0..7 (thousandths)
CycleEffects == <<50, 30, 10, -10, -30, -50, -30, 10>>

\* the length trend_history is kept to
TrendWindow == 24

\* TrendAnalyzer.update_trends: the new trend factors
TrendFactors(round_number, jitter) ==
    [seasonal |-> SeasonalPatterns[(round_number % 12) + 1],
     trend |-> 5 + jitter,
     cyclical |-> CycleEffects[(round_number % 8) + 1]]

UpdateTrendHistory(history, round_number, factors) ==
    LET h == Append(history, [round |-> round_number, seasonal |-> factors.seasonal,
                              trend |-> factors.trend, cyclical |-> factors.cyclical])
    IN IF Len(h) > TrendWindow THEN Tail(h) ELSE h

\* Market.__init__ with the configuration of _create_initial_market
InitialMarket(pert) ==
    [round_number |-> 0,
     demand_level |-> InitialMarketDemand,
     price_index |-> 100,
     competition_intensity |-> 5000,
     economic_indicators |-> [gdp_growth |-> 20, inflation |-> 30,
                              interest_rate |-> 50],
     active_events |-> <<>>,
     trend_factors |-> [seasonal |-> 0, trend |-> 0, cyclical |-> 0],
     competitors |-> InitializeCompetitors(NumCompetitors, pert),
     trend_history |-> <<>>]

\* Market.advance_round; Market.update_competitor_actions passes the
\* placeholders player_price = 100.0 and player_market_share = 0.15
MarketAdvanceRound(m, round_number, jitter, rolls) ==
    LET factors == TrendFactors(round_number, jitter)
        upd == UpdateCompetitorActions(m.competitors, 100000, 1500, rolls)
    IN [m EXCEPT
            !.round_number = round_number,
            !.trend_factors = factors,
            !.trend_history = UpdateTrendHistory(@, round_number, factors),
            !.competitors = upd.competitors,
            !.competition_intensity =
                Max(0, Min(BP, @ + upd.price_pressure \div 10000))]

---------------------------------------------------------------------------
\* simulation_engine.py

\* SimulationEngine._create_initial_competitors (names and financials left out)
InitialCompetitors ==
    [i \in 1..NumCompetitors |->
        [id |-> i, market_share |-> 2500 \div NumCompetitors,
         aggressiveness |-> 50 + (i - 1) * 10]]

\* _apply_event_impacts without the clamp of the additive metrics
ImpactedMetricUnclamped(metric, value, impact) ==
    IF metric \in {"market_share", "customer_satisfaction"}
    THEN value + impact * 100
    ELSE (value * (100 + impact)) \div 100

\* SimulationEngine._apply_event_impacts for one metric of the round results
ImpactedMetric(metric, value, impact) ==
    IF metric \in {"revenue", "costs", "profit"}
    THEN (value * (100 + impact)) \div 100
    ELSE IF metric \in {"market_share", "customer_satisfaction"}
         THEN Max(0, Min(BP, value + impact * 100))
         ELSE (value * (100 + impact)) \div 100

\* SimulationEngine._apply_event_impacts
ApplyEventImpacts(round_results, event_impacts) ==
    [metric \in DOMAIN round_results |->
        IF metric \in DOMAIN event_impacts
        THEN ImpactedMetric(metric, round_results[metric], event_impacts[metric])
        ELSE round_results[metric]]

\* SimulationEngine._apply_round_results_to_company
ApplyRoundResultsToCompany(c, round_results) ==
    [c EXCEPT !.financial_data.revenue = round_results.revenue,
              !.financial_data.costs = round_results.costs,
              !.financial_data.profit = round_results.profit,
              !.market_data.market_share = round_results.market_share,
              !.operations_data.customer_satisfaction =
                    round_results.customer_satisfaction]

\* the market_conditions dictionary of _update_simulation_state
MarketConditions(m) ==
    [demand_level |-> m.demand_level, price_index |-> m.price_index,
     market_price |-> 100]

\* SimulationState.to_dict, Company.to_dict and Market.to_dict: the part of a
\* snapshot that is built from numbers or from objects nobody changes later
Snapshot(st, c, m) ==
    [round_number |-> st.round_number,
     player_company |-> c,
     market |-> [demand_level |-> m.demand_level, price_index |-> m.price_index,
                 competition_intensity |-> m.competition_intensity,
                 round_number |-> m.round_number],
     competitors |-> st.competitors,
     events |-> st.events,
     kpis |-> st.kpis]

\* What a reader of simulation_history[i] sees.  Company.to_dict stores the
\* decision_history and performance_history lists themselves, and
\* Market.to_dict the economic_indicators, active_events and trend_factors
\* objects and the competitors and trend_history lists themselves: every
\* snapshot of the history refers to the same live objects.
SnapshotView(i) ==
    [snapshot |-> simulation_history[i],
     decision_history |-> decision_history,
     performance_history |-> performance_history,
     economic_indicators |-> market.economic_indicators,
     market_active_events |-> market.active_events,
     trend_factors |-> market.trend_factors,
     market_competitors |-> market.competitors,
     trend_history |-> market.trend_history]

\* run_round appending both of the to_dict() results it builds
AppendHistoryTwice(history, snap) == Append(Append(history, snap), snap)

\* run_round: self.simulation_history.append(self.current_state.to_dict())
AppendHistory(history, snap) == Append(history, snap)

\* run_round without its check of current_state
NotInitializedNever(init) == FALSE

\* whether run_round refuses the call: `if not self.current_state`
NotInitialized(init) == ~init

\* the triggered event_data objects as the caller of run_round sees them:
\* they are the objects of the active list, which process_active_events
\* has decremented
TriggeredEvents(events, round_number) ==
    [i \in 1..Len(events) |->
        [EventData(events[i], round_number)
            EXCEPT !.remaining_duration = @ - 1]]

---------------------------------------------------------------------------
\* The inputs of run_round

DecisionInputs ==
    { NoDecisions,
      [pricing |-> [price |-> Num(150)], investment |-> [amount |-> Num(10000)],
       marketing |-> [budget |-> Num(3000)]],
      [pricing |-> [price |-> Num(110)],
       capacity_expansion |-> [expansion_amount |-> Num(200)],
       marketing_campaign |-> [budget |-> Num(25000)]],
      [pricing |-> [price |-> NotNum]] }

\* the random draws of one round of the market: the trend jitter, a
\* random.uniform(-0.01, 0.01) draw of _calculate_trend_component in
\* thousandths, and the competitors whose quality draw succeeded
MarketDraws ==
    { [jitter |-> -5, quality_rolls |-> {}],
      [jitter |-> 5, quality_rolls |-> 1..NumCompetitors] }

RandomEventIds == {id \in EventIds : EventDefinitions[id].type = "random"}

---------------------------------------------------------------------------
\* The simulation engine

\* the bookkeeping of the engine specification
EngineGhost ==
    [calls |-> 0,          \* run_round calls since initialize_simulation
     completed |-> 0,      \* those that returned
     advances |-> 0,       \* advance_round calls since the last reset
     decisions |-> NoDecisions,   \* the argument of the last run_round
     pre_log |-> <<>>,            \* decision_history before the last run_round
     pre_company |-> InitialCompany,  \* the company before the last run_round
     processed |-> [decisions_processed |-> 0, round |-> 0,
                    results |-> NoDecisions],
                           \* processed_decisions of the last run_round
     event_impacts |-> NoImpacts,  \* event_impacts of the last run_round
     before |-> [current_round |-> 0, active |-> 0, snapshots |-> 0],
                           \* what initialize_simulation found, until the
                           \* next run_round
     frozen |-> <<>>]      \* SnapshotView(i) as it was when i was appended

\* web_ui: a session without a game, and no request being handled
NoSession == [has_game |-> FALSE]
NoRequests == <<>>

\* SimulationEngine.__init__: current_state is None; the model gives the
\* variables of the state the values initialize_simulation will build, and
\* nothing reads them while initialized is FALSE
Init ==
    /\ max_rounds \in 1..MaxRoundsBound
    /\ current_round = 0
    /\ active_events = <<>>
    /\ event_history = <<>>
    /\ event_definitions = DefaultEvents
    /\ initialized = FALSE
    /\ state = [round_number |-> 0, competitors |-> InitialCompetitors,
                events |-> <<>>, kpis |-> GetKpis(InitialCompany)]
    /\ company = InitialCompany
    /\ decision_history = <<>>
    /\ performance_history = <<>>
    /\ market \in {InitialMarket(pert) : pert \in Perturbations}
    /\ simulation_history = <<>>
    /\ result = [op |-> "none"]
    /\ session = NoSession
    /\ requests = NoRequests
    /\ ghost = EngineGhost

\* SimulationEngine.initialize_simulation
InitializeSimulation(pert) ==
    LET st == [round_number |-> 0, competitors |-> InitialCompetitors,
               events |-> <<>>, kpis |-> GetKpis(InitialCompany)]
        m == InitialMarket(pert)
        em == EventManagerReset([active |-> active_events,
                                 history |-> event_history,
                                 definitions |-> event_definitions])
    IN /\ current_round' = RoundManagerReset(current_round)
       /\ active_events' = em.active
       /\ event_history' = em.history
       /\ event_definitions' = em.definitions
       /\ initialized' = TRUE
       /\ state' = st
       /\ company' = InitialCompany
       /\ decision_history' = <<>>
       /\ performance_history' = <<>>
       /\ market' = m
       /\ simulation_history' = <<Snapshot(st, InitialCompany, m)>>
       /\ result' = [op |-> "initialize_simulation", status |-> "ok"]
       /\ ghost' = [EngineGhost EXCEPT
                        !.before = [current_round |-> current_round,
                                    active |-> Len(active_events),
                                    snapshots |-> Len(simulation_history)],
                        !.frozen = <<[snapshot |-> Snapshot(st, InitialCompany, m),
                                      decision_history |-> <<>>,
                                      performance_history |-> <<>>,
                                      economic_indicators |-> m.economic_indicators,
                                      market_active_events |-> m.active_events,
                                      trend_factors |-> m.trend_factors,
                                      market_competitors |-> m.competitors,
                                      trend_history |-> m.trend_history]>>]
       /\ UNCHANGED max_rounds

\* run_round with the round counter restored when process_decisions raises
RaisedRoundRolledBack(cur, new_round) == cur

\* run_round, lines 75-78: the round counter when process_decisions raises;
\* nothing catches the error, so the advance of line 75 stays
RaisedRound(cur, new_round) == new_round

\* SimulationEngine.run_round
RunRound(decisions, rolls, draw) ==
    IF NotInitialized(initialized)
    THEN /\ result' = [op |-> "run_round", status |-> "ValueError"]
         /\ UNCHANGED <<max_rounds, current_round, active_events, event_history,
                        event_definitions, initialized, state, company, decision_history,
                        performance_history, market, simulation_history, ghost>>
    ELSE
    LET new_round == AdvanceRound(current_round, max_rounds)
        processed == ProcessDecisions(decisions, new_round)
        g == [ghost EXCEPT !.calls = @ + 1, !.advances = @ + 1,
                           !.decisions = decisions,
                           !.pre_log = decision_history,
                           !.pre_company = company,
                           !.processed = EngineGhost.processed,
                           !.event_impacts = NoImpacts,
                           !.before = EngineGhost.before]
    IN
    /\ IF processed.raised
       THEN /\ current_round' = RaisedRound(current_round, new_round)
            /\ result' = [op |-> "run_round", status |-> "TypeError"]
            /\ ghost' = g
            /\ UNCHANGED <<max_rounds, active_events, event_history,
                           event_definitions, initialized,
                           state, company, decision_history, performance_history,
                           market, simulation_history>>
       ELSE
       \E triggers \in {GenerateRandomEvents(event_definitions, new_round, rolls)
                        \o ProcessScheduledEvents(event_definitions, new_round)} :
       \E em \in {TriggerAll([active |-> active_events, history |-> event_history],
                             triggers, new_round)} :
       \E proc \in {ProcessActiveEvents(em.active)} :
       \E event_impacts \in {GetActiveEventImpacts(proc.active)} :
       \E m \in {MarketAdvanceRound(market, new_round, draw.jitter,
                                    draw.quality_rolls)} :
       \E round_results \in
            {ApplyEventImpacts(CalculateRoundResults(new_round, processed.value),
                               event_impacts)} :
       \E triggered_events \in {TriggeredEvents(triggers, new_round)} :
       \E c \in {UpdateState(ApplyRoundResultsToCompany(company, round_results),
                             MarketConditions(m))} :
       \E st \in {[state EXCEPT
                     !.round_number = new_round,
                     !.events = [i \in 1..Len(triggered_events) |->
                                    triggered_events[i].event],
                     !.kpis = GetKpis(c)]} :
       \E ph \in {RecordPerformance(performance_history, c)} :
       \E snap \in {Snapshot(st, c, m)} :
          /\ current_round' = new_round
          /\ active_events' = proc.active
          /\ event_history' = em.history
          /\ market' = m
          /\ company' = c
          /\ performance_history' = ph
          /\ state' = st
          /\ simulation_history' = AppendHistory(simulation_history, snap)
          /\ result' = [op |-> "run_round", status |-> "ok",
                        round_number |-> new_round,
                        round_results |-> round_results,
                        triggered_events |-> triggered_events,
                        expired_events |-> proc.expired,
                        is_simulation_over |-> IsSimulationOver(new_round, max_rounds)]
          /\ ghost' = [g EXCEPT
                          !.completed = @ + 1,
                          !.processed = processed.value,
                          !.event_impacts = event_impacts,
                          !.frozen = Append(@,
                              [snapshot |-> snap,
                               decision_history |-> decision_history,
                               performance_history |-> ph,
                               economic_indicators |-> m.economic_indicators,
                               market_active_events |-> m.active_events,
                               trend_factors |-> m.trend_factors,
                               market_competitors |-> m.competitors,
                               trend_history |-> m.trend_history])]
          /\ UNCHANGED <<max_rounds, event_definitions, initialized,
                          decision_history>>

Initialize ==
    /\ \E pert \in Perturbations : InitializeSimulation(pert)
    /\ UNCHANGED <<session, requests>>

Round ==
    /\ ghost.calls < MaxCalls
    /\ \E decisions \in DecisionInputs, rolls \in SUBSET RandomEventIds,
          draw \in MarketDraws :
            /\ Len(event_history) + Cardinality(rolls) <= MaxEventHistory
            /\ RunRound(decisions, rolls, draw)
    /\ UNCHANGED <<session, requests>>

Next == Initialize \/ Round

Spec == Init /\ [][Next]_vars

---------------------------------------------------------------------------
\* A stand-alone EventManager: trigger_event, process_active_events,
\* get_active_event_impacts and reset called in any order.  As in run_round,
\* the caller passes as round_number the number of the round in progress:
\* one more than the process_active_events calls made since the last reset.

EMGhost ==
    [ops |-> 0,               \* calls made
     process_calls |-> 0,     \* process_active_events calls since the last reset
     prev_active |-> <<>>]    \* the active list before the last call

InitEM ==
    /\ max_rounds = 1
    /\ current_round = 0
    /\ active_events = <<>>
    /\ event_history = <<>>
    /\ event_definitions = DefaultEvents
    /\ initialized = FALSE
    /\ state = [round_number |-> 0, competitors |-> InitialCompetitors,
                events |-> <<>>, kpis |-> GetKpis(InitialCompany)]
    /\ company = InitialCompany
    /\ decision_history = <<>>
    /\ performance_history = <<>>
    /\ market = InitialMarket(5)
    /\ simulation_history = <<>>
    /\ result = [op |-> "none"]
    /\ session = NoSession
    /\ requests = NoRequests
    /\ ghost = EMGhost

EMUnchanged ==
    UNCHANGED <<max_rounds, current_round, event_definitions, initialized, state, company,
                decision_history, performance_history, market, simulation_history,
                session, requests>>

EMTrigger ==
    \E id \in EventIds :
    \E em \in {TriggerEvent([active |-> active_events, history |-> event_history],
                            EventDefinitions[id], ghost.process_calls + 1)} :
        /\ ghost.ops < MaxOps
        /\ active_events' = em.active
        /\ event_history' = em.history
        /\ result' = [op |-> "trigger_event",
                      value |-> EventData(EventDefinitions[id],
                                          ghost.process_calls + 1)]
        /\ ghost' = [ghost EXCEPT !.ops = @ + 1, !.prev_active = active_events]
        /\ EMUnchanged

EMProcess ==
    \E proc \in {ProcessActiveEvents(active_events)} :
        /\ ghost.ops < MaxOps
        /\ active_events' = proc.active
        /\ result' = [op |-> "process_active_events", value |-> proc.expired]
        /\ ghost' = [ghost EXCEPT !.ops = @ + 1, !.process_calls = @ + 1,
                                  !.prev_active = active_events]
        /\ UNCHANGED event_history
        /\ EMUnchanged

EMImpacts ==
    /\ result' = [op |-> "get_active_event_impacts",
                  value |-> GetActiveEventImpacts(active_events)]
    /\ UNCHANGED <<active_events, event_history, ghost>>
    /\ EMUnchanged

\* EventManager.reset
EMReset ==
    \E em \in {EventManagerReset([active |-> active_events,
                                  history |-> event_history,
                                  definitions |-> event_definitions])} :
    /\ ghost.ops < MaxOps
    /\ active_events' = em.active
    /\ event_history' = em.history
    /\ result' = [op |-> "reset"]
    /\ ghost' = [ghost EXCEPT !.ops = @ + 1, !.process_calls = 0,
                              !.prev_active = active_events]
    /\ EMUnchanged

NextEM == EMTrigger \/ EMProcess \/ EMImpacts \/ EMReset

SpecEM == InitEM /\ [][NextEM]_vars

---------------------------------------------------------------------------
\* A stand-alone Company: make_decision and update_state called in any order

CompanyDecisionInputs ==
    { <<"price_change", [new_price |-> Num(110)]>>,
      <<"price_change", NoParams>>,
      <<"capacity_expansion", [expansion_amount |-> Num(200)]>>,
      <<"capacity_expansion", [expansion_amount |-> NotNum]>>,
      <<"marketing_campaign", [budget |-> Num(25000)]>>,
      <<"marketing_campaign", [budget |-> Num(1000000)]>>,
      <<"marketing_campaign", [budget |-> Num(-2000000)]>>,
      <<"quality_improvement", [investment |-> Num(50000)]>>,
      <<"quality_improvement", [amount |-> Num(50000)]>>,
      <<"hiring", [num_employees |-> Num(10)]>>,
      <<"equipment_purchase", [equipment_value |-> Num(20000)]>>,
      <<"invalid_decision", NoParams>>,
      <<"pricing", [price |-> Num(110)]>> }

\* market conditions given to update_state: demand_level, price_index
\* (hundredths) and market_price
ConditionInputs ==
    { [demand_level |-> 1000, price_index |-> 100, market_price |-> 100],
      [demand_level |-> 20000, price_index |-> 120, market_price |-> 100],
      [demand_level |-> 0, price_index |-> 400, market_price |-> 100] }

CompanyGhost ==
    [ops |-> 0,
     decision_type |-> "none", params |-> NoParams,  \* the last make_decision
     pre_company |-> InitialCompany,                  \* the company before it
     pre_log |-> <<>>]                                \* the log before it

InitCompany ==
    /\ max_rounds = 1
    /\ current_round = 0
    /\ active_events = <<>>
    /\ event_history = <<>>
    /\ event_definitions = DefaultEvents
    /\ initialized = FALSE
    /\ state = [round_number |-> 0, competitors |-> InitialCompetitors,
                events |-> <<>>, kpis |-> GetKpis(InitialCompany)]
    /\ company = InitialCompany
    /\ decision_history = <<>>
    /\ performance_history = <<>>
    /\ market = InitialMarket(5)
    /\ simulation_history = <<>>
    /\ result = [op |-> "none"]
    /\ session = NoSession
    /\ requests = NoRequests
    /\ ghost = CompanyGhost

CompanyUnchanged ==
    UNCHANGED <<max_rounds, current_round, active_events, event_history,
                event_definitions, initialized, state, market, simulation_history,
                session, requests>>

CompanyMakeDecision ==
    \E d \in CompanyDecisionInputs :
    \E r \in {MakeDecision(company, decision_history, d[1], d[2])} :
        /\ ghost.ops < MaxCompanyOps
        /\ company' = r.company
        /\ decision_history' = r.log
        /\ result' = [op |-> "make_decision", returned |-> r.returned]
        /\ ghost' = [ghost EXCEPT !.ops = @ + 1, !.decision_type = d[1],
                                  !.params = d[2], !.pre_company = company,
                                  !.pre_log = decision_history]
        /\ UNCHANGED performance_history
        /\ CompanyUnchanged

CompanyUpdateState ==
    \E conditions \in ConditionInputs :
    \E c \in {UpdateState(company, conditions)} :
        /\ ghost.ops < MaxCompanyOps
        /\ company' = c
        /\ performance_history' = RecordPerformance(performance_history, c)
        /\ result' = [op |-> "update_state"]
        /\ ghost' = [ghost EXCEPT !.ops = @ + 1]
        /\ UNCHANGED decision_history
        /\ CompanyUnchanged

NextCompany == CompanyMakeDecision \/ CompanyUpdateState

SpecCompany == InitCompany /\ [][NextCompany]_vars

---------------------------------------------------------------------------
\* The functions of the engine and of the event manager that compute from
\* their arguments alone, each applied to arguments of bounded sets

\* round results: those of calculate_round_results, those of
\* test_apply_event_impacts, values next to the ends of [0, 1], and one with
\* a metric beyond the six of calculate_round_results
RoundResultInputs ==
    { [round |-> 1, revenue |-> 110000, costs |-> 80000, profit |-> 30000,
       market_share |-> 1500, customer_satisfaction |-> 7500],
      [revenue |-> 100000, costs |-> 80000, profit |-> 20000,
       market_share |-> 1500, customer_satisfaction |-> 8000],
      [round |-> 2, revenue |-> 0, costs |-> 80000, profit |-> -80000,
       market_share |-> 9500, customer_satisfaction |-> 500],
      [round |-> 3, revenue |-> 150000, costs |-> 80000, profit |-> 70000,
       market_share |-> 1500, customer_satisfaction |-> 7500,
       efficiency |-> 8000] }

ImpactKeys == {"revenue", "profit", "market_share", "customer_satisfaction",
               "efficiency", "demand"}

\* impacts, in hundredths
ImpactValues == {-30, 10}

\* combined impact mappings: every mapping of at most two keys, and the one
\* of test_apply_event_impacts
ImpactInputs ==
    UNION {[K -> ImpactValues] : K \in {S \in SUBSET ImpactKeys : Cardinality(S) <= 2}}
    \cup {[revenue |-> 10, costs |-> -5, market_share |-> 2]}

\* the rounds _check_conditions is asked about
MaxQueryRound == 5

ConditionKeys == {"round", "min_round", "max_round", "season"}

ConditionValues == {2, 4}

\* condition mappings: every mapping of some of the keys
EventConditionInputs ==
    UNION {[K -> ConditionValues] : K \in SUBSET ConditionKeys}

InitFunctions ==
    /\ max_rounds = 1
    /\ current_round = 0
    /\ active_events = <<>>
    /\ event_history = <<>>
    /\ event_definitions = DefaultEvents
    /\ initialized = FALSE
    /\ state = [round_number |-> 0, competitors |-> InitialCompetitors,
                events |-> <<>>, kpis |-> GetKpis(InitialCompany)]
    /\ company = InitialCompany
    /\ decision_history = <<>>
    /\ performance_history = <<>>
    /\ market = InitialMarket(5)
    /\ simulation_history = <<>>
    /\ result = [op |-> "none"]
    /\ session = NoSession
    /\ requests = NoRequests
    /\ ghost = [ops |-> 0]

FunctionsUnchanged ==
    UNCHANGED <<max_rounds, current_round, active_events, event_history,
                event_definitions, initialized, state, company,
                decision_history, performance_history, market,
                simulation_history, session, requests, ghost>>

\* SimulationEngine._apply_event_impacts(round_results, event_impacts)
ApplyEventImpactsCall ==
    \E round_results \in RoundResultInputs, event_impacts \in ImpactInputs :
        /\ result' = [op |-> "_apply_event_impacts",
                      round_results |-> round_results,
                      event_impacts |-> event_impacts,
                      value |-> ApplyEventImpacts(round_results, event_impacts)]
        /\ FunctionsUnchanged

\* EventManager._check_conditions(conditions, round_number)
CheckConditionsCall ==
    \E conditions \in EventConditionInputs, round_number \in 0..MaxQueryRound :
        /\ result' = [op |-> "_check_conditions", conditions |-> conditions,
                      round_number |-> round_number,
                      value |-> CheckConditions(conditions, round_number)]
        /\ FunctionsUnchanged

\* prices: perfect squares around the base price 100.0
PriceInputs == {25, 64, 100, 144, 400}

\* market states: that of MarketState(), one as update_trends leaves it, and
\* one with the strongest competition
MarketStateInputs ==
    { [economic_indicators |-> [gdp_growth |-> 20, inflation |-> 30,
                                interest_rate |-> 50],
       trend_factors |-> [seasonal |-> 0, trend |-> 0, cyclical |-> 0],
       competition_intensity |-> 5000],
      [economic_indicators |-> [gdp_growth |-> 20, inflation |-> 30,
                                interest_rate |-> 50],
       trend_factors |-> [seasonal |-> -150, trend |-> 10, cyclical |-> 30],
       competition_intensity |-> 5200],
      [economic_indicators |-> [gdp_growth |-> -10, inflation |-> 60,
                                interest_rate |-> 80],
       trend_factors |-> [seasonal |-> 200, trend |-> -5, cyclical |-> -50],
       competition_intensity |-> 10000] }

\* company factors: none (the defaults), those of test_calculate_demand_basic,
\* and values for which a factor of the demand is zero or negative
CompanyFactorInputs ==
    { [k \in {} |-> 0],
      [quality |-> 8000, brand_value |-> 60, customer_satisfaction |-> 7500],
      [quality |-> 10000, brand_value |-> 0],
      [quality |-> -12500],
      [brand_value |-> -400] }

\* DemandCalculator.calculate_demand(price, market_state, company_factors)
CalculateDemandCall ==
    \E price \in PriceInputs, market_state \in MarketStateInputs,
       company_factors \in CompanyFactorInputs :
        /\ result' = [op |-> "calculate_demand", price |-> price,
                      market_state |-> market_state,
                      company_factors |-> company_factors,
                      value |-> CalculateDemand(price, market_state,
                                                company_factors)]
        /\ FunctionsUnchanged

NextFunctions ==
    ApplyEventImpactsCall \/ CheckConditionsCall \/ CalculateDemandCall

SpecFunctions == InitFunctions /\ [][NextFunctions]_vars

---------------------------------------------------------------------------
\* A stand-alone EventManager whose definitions change: add_custom_event,
\* remove_event and trigger_event, and the two queries generate_random_events
\* and process_scheduled_events

MaxDefinitionOps == 2

\* custom definitions: one of each EventType, with and without conditions
CustomEvents ==
    { [id |-> "supplier_strike", type |-> "decision", probability |-> 100,
       impact |-> [costs |-> 10], duration |-> 1, conditions |-> NoConditions],
      [id |-> "tax_audit", type |-> "scheduled", probability |-> 100,
       impact |-> [costs |-> 5], duration |-> 1,
       conditions |-> [min_round |-> 2, max_round |-> 3]],
      [id |-> "price_war", type |-> "random", probability |-> 50,
       impact |-> [revenue |-> -10], duration |-> 2,
       conditions |-> [min_round |-> 3]] }

RemovableIds == {"regulatory_change", "price_war"}

\* the definitions whose random.random() < probability draw succeeds: none,
\* one, or all
RollInputs ==
    { {}, {"market_crash"}, EventIds \cup {event.id : event \in CustomEvents} }

DefinitionsGhost ==
    [ops |-> 0,
     prev |-> [active |-> <<>>, history |-> <<>>, definitions |-> DefaultEvents]]
                          \* the three fields before the last query

InitDefinitions ==
    /\ max_rounds = 1
    /\ current_round = 0
    /\ active_events = <<>>
    /\ event_history = <<>>
    /\ event_definitions = DefaultEvents
    /\ initialized = FALSE
    /\ state = [round_number |-> 0, competitors |-> InitialCompetitors,
                events |-> <<>>, kpis |-> GetKpis(InitialCompany)]
    /\ company = InitialCompany
    /\ decision_history = <<>>
    /\ performance_history = <<>>
    /\ market = InitialMarket(5)
    /\ simulation_history = <<>>
    /\ result = [op |-> "none"]
    /\ session = NoSession
    /\ requests = NoRequests
    /\ ghost = DefinitionsGhost

DefinitionsUnchanged ==
    UNCHANGED <<max_rounds, current_round, initialized, state, company,
                decision_history, performance_history, market, simulation_history,
                session, requests>>

DefinitionsAddCustomEvent ==
    \E event \in CustomEvents :
        /\ ghost.ops < MaxDefinitionOps
        /\ event_definitions' = AddCustomEvent(event_definitions, event)
        /\ result' = [op |-> "add_custom_event"]
        /\ ghost' = [ghost EXCEPT !.ops = @ + 1]
        /\ UNCHANGED <<active_events, event_history>>
        /\ DefinitionsUnchanged

DefinitionsRemoveEvent ==
    \E event_id \in RemovableIds :
        /\ ghost.ops < MaxDefinitionOps
        /\ event_definitions' = RemoveEvent(event_definitions, event_id)
        /\ result' = [op |-> "remove_event"]
        /\ ghost' = [ghost EXCEPT !.ops = @ + 1]
        /\ UNCHANGED <<active_events, event_history>>
        /\ DefinitionsUnchanged

\* trigger_event of one of the definitions, in round 1
DefinitionsTrigger ==
    \E i \in 1..Len(event_definitions) :
    \E em \in {TriggerEvent([active |-> active_events, history |-> event_history],
                            event_definitions[i], 1)} :
        /\ ghost.ops < MaxDefinitionOps
        /\ active_events' = em.active
        /\ event_history' = em.history
        /\ result' = [op |-> "trigger_event",
                      value |-> EventData(event_definitions[i], 1)]
        /\ ghost' = [ghost EXCEPT !.ops = @ + 1]
        /\ UNCHANGED event_definitions
        /\ DefinitionsUnchanged

DefinitionsGenerateRandom ==
    \E round_number \in 0..MaxQueryRound, rolls \in RollInputs :
        /\ result' = [op |-> "generate_random_events",
                      round_number |-> round_number, rolls |-> rolls,
                      value |-> GenerateRandomEvents(event_definitions,
                                                     round_number, rolls)]
        /\ ghost' = [ghost EXCEPT !.prev = [active |-> active_events,
                                            history |-> event_history,
                                            definitions |-> event_definitions]]
        /\ UNCHANGED <<active_events, event_history, event_definitions>>
        /\ DefinitionsUnchanged

DefinitionsProcessScheduled ==
    \E round_number \in 0..MaxQueryRound :
        /\ result' = [op |-> "process_scheduled_events",
                      round_number |-> round_number,
                      value |-> ProcessScheduledEvents(event_definitions,
                                                       round_number)]
        /\ ghost' = [ghost EXCEPT !.prev = [active |-> active_events,
                                            history |-> event_history,
                                            definitions |-> event_definitions]]
        /\ UNCHANGED <<active_events, event_history, event_definitions>>
        /\ DefinitionsUnchanged

NextDefinitions ==
    \/ DefinitionsAddCustomEvent
    \/ DefinitionsRemoveEvent
    \/ DefinitionsTrigger
    \/ DefinitionsGenerateRandom
    \/ DefinitionsProcessScheduled

SpecDefinitions == InitDefinitions /\ [][NextDefinitions]_vars

---------------------------------------------------------------------------
\* The engine run to the end of the simulation and past it: max_rounds is the
\* round of the default scheduled event (regulatory_change) or one more, the
\* player submits no decisions, and of the random events the one that lasts
\* longest (tech_breakthrough) can be drawn, MaxEndgameDraws times at most.

MaxEndgameCalls == 6
MaxEndgameDraws == 2

EndgameRolls == {"tech_breakthrough"}

\* the records of random events in the event history
RandomRecords(history) ==
    {k \in DOMAIN history : history[k].event_id \in RandomEventIds}

EndgameRounds == EventDefinitions["regulatory_change"].conditions["round"]

InitEndgame ==
    /\ max_rounds \in {EndgameRounds, EndgameRounds + 1}
    /\ current_round = 0
    /\ active_events = <<>>
    /\ event_history = <<>>
    /\ event_definitions = DefaultEvents
    /\ initialized = FALSE
    /\ state = [round_number |-> 0, competitors |-> InitialCompetitors,
                events |-> <<>>, kpis |-> GetKpis(InitialCompany)]
    /\ company = InitialCompany
    /\ decision_history = <<>>
    /\ performance_history = <<>>
    /\ market = InitialMarket(5)
    /\ simulation_history = <<>>
    /\ result = [op |-> "none"]
    /\ session = NoSession
    /\ requests = NoRequests
    /\ ghost = EngineGhost

EndgameInitialize ==
    /\ InitializeSimulation(5)
    /\ UNCHANGED <<session, requests>>

EndgameRound ==
    /\ ghost.calls < MaxEndgameCalls
    /\ \E rolls \in SUBSET EndgameRolls, draw \in MarketDraws :
          /\ Cardinality(RandomRecords(event_history)) + Cardinality(rolls)
                <= MaxEndgameDraws
          /\ RunRound(NoDecisions, rolls, draw)
    /\ UNCHANGED <<session, requests>>

NextEndgame == EndgameInitialize \/ EndgameRound

SpecEndgame == InitEndgame /\ [][NextEndgame]_vars

---------------------------------------------------------------------------
\* A stand-alone CompetitorAI: update_competitor_actions called with any
\* player price and player market share.  The competitors are
\* market.competitors.

MaxCompetitorOps == 3

\* player_price (thousandths): below, within 5 of, and above the competitors'
\* starting price of 100
PlayerPriceInputs == {50000, 104000, 300000}

\* player_market_share (ten-thousandths)
PlayerShareInputs == {500, 6000}

CompetitorsGhost ==
    [ops |-> 0,                     \* update_competitor_actions calls made
     player_price |-> 0,            \* the player_price of the last call
     prev |-> <<>>]                 \* the competitors before the last call

InitCompetitors ==
    /\ max_rounds = 1
    /\ current_round = 0
    /\ active_events = <<>>
    /\ event_history = <<>>
    /\ event_definitions = DefaultEvents
    /\ initialized = FALSE
    /\ state = [round_number |-> 0, competitors |-> InitialCompetitors,
                events |-> <<>>, kpis |-> GetKpis(InitialCompany)]
    /\ company = InitialCompany
    /\ decision_history = <<>>
    /\ performance_history = <<>>
    /\ market \in {InitialMarket(pert) : pert \in Perturbations}
    /\ simulation_history = <<>>
    /\ result = [op |-> "none"]
    /\ session = NoSession
    /\ requests = NoRequests
    /\ ghost = CompetitorsGhost

\* CompetitorAI.update_competitor_actions
CompetitorsUpdate ==
    \E player_price \in PlayerPriceInputs,
       player_market_share \in PlayerShareInputs,
       rolls \in {{}, 1..NumCompetitors} :
    \E updated \in {UpdateCompetitorActions(market.competitors, player_price,
                                            player_market_share, rolls)} :
        /\ ghost.ops < MaxCompetitorOps
        /\ market' = [market EXCEPT !.competitors = updated.competitors]
        /\ result' = [op |-> "update_competitor_actions",
                      price_pressure |-> updated.price_pressure]
        /\ ghost' = [ops |-> ghost.ops + 1, player_price |-> player_price,
                     prev |-> market.competitors]
        /\ UNCHANGED <<max_rounds, current_round, active_events, event_history,
                       event_definitions, initialized, state, company,
                       decision_history, performance_history,
                       simulation_history, session, requests>>

NextCompetitors == CompetitorsUpdate

SpecCompetitors == InitCompetitors /\ [][NextCompetitors]_vars

---------------------------------------------------------------------------
\* The web service: web_ui/routes/game.py.  Flask-Session keeps the session
\* on the server (config.py: SESSION_TYPE = 'filesystem'): a request works on
\* the copy of the session it read when it started and writes the session
\* back when it has been handled.  The server handles requests concurrently,
\* so each request is a process; run_round is split where the round counter
\* has been advanced (simulation_engine.py line 75).  Of the engine the
\* session carries, the round counter and the snapshots' round numbers and
\* decisions are kept.

MaxRequests == 2        \* requests handled at the same time
MaxSubmissions == 3     \* requests made in one behaviour

RequestIds == 1..MaxRequests

\* the 'pricing' field of the decision form
FormInputs == {90, 110}

IdleRequest == [pc |-> "idle"]

WebGhost == [ops |-> 0]     \* requests made

\* initialize_game: a new engine, initialized, stored in the session
NewGameSession ==
    [has_game |-> TRUE,
     engine |-> [current_round |-> RoundManagerReset(0),
                 simulation_history |-> <<[round_number |-> 0, pricing |-> 0]>>]]

InitWeb ==
    /\ max_rounds \in 1..MaxRoundsBound
    /\ current_round = 0
    /\ active_events = <<>>
    /\ event_history = <<>>
    /\ event_definitions = DefaultEvents
    /\ initialized = FALSE
    /\ state = [round_number |-> 0, competitors |-> InitialCompetitors,
                events |-> <<>>, kpis |-> GetKpis(InitialCompany)]
    /\ company = InitialCompany
    /\ decision_history = <<>>
    /\ performance_history = <<>>
    /\ market = InitialMarket(5)
    /\ simulation_history = <<>>
    /\ result = [op |-> "none"]
    /\ session = NoSession
    /\ requests = [r \in RequestIds |-> IdleRequest]
    /\ ghost = WebGhost

WebUnchanged ==
    UNCHANGED <<max_rounds, current_round, active_events, event_history,
                event_definitions, initialized, state, company,
                decision_history, performance_history, market,
                simulation_history>>

\* initialize_game, handled in one step
WebInitializeGame ==
    /\ ghost.ops < MaxSubmissions
    /\ session' = NewGameSession
    /\ result' = [op |-> "initialize_game"]
    /\ ghost' = [ghost EXCEPT !.ops = @ + 1]
    /\ UNCHANGED requests
    /\ WebUnchanged

\* process_decision up to the run_round call: the request reads the session;
\* without a game it is redirected to the menu
WebProcessDecision(r, pricing) ==
    /\ ghost.ops < MaxSubmissions
    /\ requests[r].pc = "idle"
    /\ ghost' = [ghost EXCEPT !.ops = @ + 1]
    /\ IF session.has_game
       THEN /\ requests' = [requests EXCEPT ![r] =
                   [pc |-> "run_round", engine |-> session.engine,
                    pricing |-> pricing]]
            /\ UNCHANGED result
       ELSE /\ result' = [op |-> "process_decision", request |-> r,
                          status |-> "no_game"]
            /\ UNCHANGED requests
    /\ UNCHANGED session
    /\ WebUnchanged

\* run_round, step 1: the round counter is advanced
WebAdvanceRound(r) ==
    /\ requests[r].pc = "run_round"
    /\ requests' = [requests EXCEPT
           ![r].pc = "in_round",
           ![r].engine.current_round = AdvanceRound(@, max_rounds)]
    /\ UNCHANGED <<session, result, ghost>>
    /\ WebUnchanged

\* run_round, the steps after the first: the snapshot of the round is appended
\* and the call returns
WebFinishRound(r) ==
    /\ requests[r].pc = "in_round"
    /\ requests' = [requests EXCEPT
           ![r].pc = "respond",
           ![r].engine.simulation_history =
               Append(@, [round_number |-> requests[r].engine.current_round,
                          pricing |-> requests[r].pricing])]
    /\ UNCHANGED <<session, result, ghost>>
    /\ WebUnchanged

\* process_decision after run_round: set_game_state, the response, and the
\* session written back
WebRespond(r) ==
    /\ requests[r].pc = "respond"
    /\ session' = [has_game |-> TRUE, engine |-> requests[r].engine]
    /\ result' = [op |-> "process_decision", request |-> r, status |-> "ok",
                  round_number |-> requests[r].engine.current_round]
    /\ requests' = [requests EXCEPT ![r] = IdleRequest]
    /\ UNCHANGED ghost
    /\ WebUnchanged

NextWeb ==
    \/ WebInitializeGame
    \/ \E r \in RequestIds, pricing \in FormInputs : WebProcessDecision(r, pricing)
    \/ \E r \in RequestIds : WebAdvanceRound(r)
    \/ \E r \in RequestIds : WebFinishRound(r)
    \/ \E r \in RequestIds : WebRespond(r)

SpecWeb == InitWeb /\ [][NextWeb]_vars

---------------------------------------------------------------------------
\* The claims

\* the six decision kinds of the specification and the parameter each requires
C_RequiredParam ==
    [price_change |-> "new_price", capacity_expansion |-> "expansion_amount",
     marketing_campaign |-> "budget", quality_improvement |-> "investment",
     hiring |-> "num_employees", equipment_purchase |-> "equipment_value"]

C_ValidCall(kind, params) ==
    /\ kind \in DOMAIN C_RequiredParam
    /\ C_RequiredParam[kind] \in DOMAIN params

RoundReturned == initialized /\ result.op = "run_round" /\ result.status = "ok"

\* C1: while initialize_simulation has never been called, a run_round call
\* fails with the not-initialized error and leaves the round counter, the
\* active events, the event history and simulation_history as they were.
C1_RunRoundBeforeInitialize ==
    [][(~initialized /\ result'.op = "run_round")
        => /\ result'.status = "ValueError"
           /\ ~initialized'
           /\ UNCHANGED <<current_round, active_events, event_history,
                          simulation_history>>]_vars

C1_Witness == ~initialized /\ result.op = "run_round"

\* C2: after run_round returns, the decision log has grown by one entry per
\* decision of an enumerated kind with its required parameter, and a
\* capacity_expansion has raised capacity by expansion_amount.
C2_DecisionsAppliedToCompany ==
    RoundReturned =>
        LET valid == {k \in DOMAIN ghost.decisions :
                        C_ValidCall(k, ghost.decisions[k])}
        IN /\ Len(decision_history) = Len(ghost.pre_log) + Cardinality(valid)
           /\ "capacity_expansion" \in valid =>
                company.operations_data.capacity =
                    ghost.pre_company.operations_data.capacity
                    + ghost.decisions["capacity_expansion"]["expansion_amount"].v

\* C3: the k-th run_round call after initialize_simulation returns
\* is_simulation_over = FALSE for k < max_rounds and TRUE for k >= max_rounds.
C3_SimulationOverAtMaxRounds ==
    RoundReturned => (result.is_simulation_over <=> ghost.calls >= max_rounds)

C3_Witness ==
    /\ RoundReturned
    /\ result.is_simulation_over
    /\ max_rounds >= 2
    /\ ghost.calls > max_rounds

\* C4: after k advance_round calls on a fresh or reset RoundManager the
\* current round is min(k, max_rounds); it stays within 0..max_rounds and
\* advance_round never returns more than max_rounds.
C4_RoundClamped ==
    /\ current_round = Min(ghost.advances, max_rounds)
    /\ 0 <= current_round /\ current_round <= max_rounds
    /\ RoundReturned => result.round_number <= max_rounds

C4_Witness == ghost.advances > max_rounds /\ current_round = max_rounds

\* C5: simulation_history holds one snapshot for initialize_simulation and one
\* for every run_round call that returned since, also after the simulation is
\* over, and the round_number of the last snapshot is that of current_state.
C5_OneSnapshotPerRound ==
    initialized =>
        /\ Len(simulation_history) = 1 + ghost.completed
        /\ simulation_history[Len(simulation_history)].round_number
                = state.round_number

C5_Witness ==
    /\ RoundReturned
    /\ ghost.completed >= 2
    /\ ghost.completed < ghost.calls
    /\ Len(simulation_history) > max_rounds + 1

\* C6: what simulation_history[i] contains stays what it was when it was
\* appended.
C6_SnapshotsImmutable ==
    initialized =>
        \A i \in 1..Len(simulation_history) : SnapshotView(i) = ghost.frozen[i]

\* the instances of s, each with remaining_duration lowered by 1
C7_Decremented(s) ==
    [i \in 1..Len(s) |-> [s[i] EXCEPT !.remaining_duration = @ - 1]]

\* C7: process_active_events lowers every remaining_duration by exactly 1,
\* removes exactly the instances that reached 0 and returns them; no instance
\* it leaves has remaining_duration <= 0; an instance of duration d is
\* returned by the d-th call after its trigger and is active until then.
C7_ExpiryExact ==
    /\ \A i \in 1..Len(active_events) :
          LET e == active_events[i]
          IN /\ e.remaining_duration >= 1
             /\ e.remaining_duration =
                    e.event.duration - (ghost.process_calls - (e.triggered_round - 1))
    /\ result.op = "process_active_events" =>
          /\ active_events = SelectSeq(C7_Decremented(ghost.prev_active),
                                       LAMBDA e : e.remaining_duration > 0)
          /\ result.value = SelectSeq(C7_Decremented(ghost.prev_active),
                                      LAMBDA e : e.remaining_duration <= 0)
          /\ \A j \in 1..Len(result.value) :
                LET e == result.value[j]
                IN /\ e.remaining_duration = 0
                   /\ ghost.process_calls - (e.triggered_round - 1) = e.event.duration

C7_Witness ==
    /\ result.op = "process_active_events"
    /\ Len(active_events) >= 1
    /\ \E j \in 1..Len(result.value) : result.value[j].event.duration >= 2

\* C8: get_active_event_impacts returns a mapping whose keys are the impact
\* keys of the active instances and whose value for a key is the sum of that
\* key's impacts over the active instances that carry it.
C8_ImpactsAreSums ==
    result.op = "get_active_event_impacts" =>
        LET n == Len(active_events)
            keys == UNION {DOMAIN active_events[i].event.impact : i \in 1..n}
            carriers(k) == {i \in 1..n : k \in DOMAIN active_events[i].event.impact}
            value(k) == [i \in carriers(k) |-> active_events[i].event.impact[k]]
        IN /\ DOMAIN result.value = keys
           /\ \A k \in keys : result.value[k] = SumOver(carriers(k), value(k))

C8_Witness ==
    /\ result.op = "get_active_event_impacts"
    /\ Len(event_history) > Len(active_events)
    /\ \E i, j \in 1..Len(active_events) :
          /\ active_events[i].event.id = "market_crash"
          /\ active_events[j].event.id = "economic_boom"
    /\ result.value["revenue"] = -15

C10_InvalidDecisionRejected ==
    (result.op = "make_decision"
        /\ ~C_ValidCall(ghost.decision_type, ghost.params))
    => /\ result.returned = "False"
       /\ company = ghost.pre_company
       /\ decision_history = ghost.pre_log

C10_Witness ==
    /\ result.op = "make_decision"
    /\ ghost.decision_type = "price_change"
    /\ "new_price" \notin DOMAIN ghost.params
    /\ result.returned = "False"
    /\ Len(decision_history) >= 1

\* the attributes a decision kind owns, as <<group, attribute>>
C11_Owned ==
    [price_change |-> {},
     capacity_expansion |-> {<<"operations_data", "capacity">>},
     marketing_campaign |-> {<<"market_data", "brand_value">>,
                             <<"market_data", "market_share">>},
     quality_improvement |-> {<<"operations_data", "quality">>},
     hiring |-> {<<"resource_data", "employees">>},
     equipment_purchase |-> {<<"resource_data", "equipment">>}]

\* C11: a make_decision that returns True appends exactly one record to the
\* decision log, leaves the earlier records as they were, and changes no
\* attribute of the company other than those its kind owns.
C11_DecisionFrame ==
    (result.op = "make_decision" /\ result.returned = "True") =>
        /\ Len(decision_history) = Len(ghost.pre_log) + 1
        /\ SubSeq(decision_history, 1, Len(ghost.pre_log)) = ghost.pre_log
        /\ decision_history[Len(decision_history)].type = ghost.decision_type
        /\ \A g \in DOMAIN company : \A a \in DOMAIN company[g] :
              <<g, a>> \notin C11_Owned[ghost.decision_type]
                  => company[g][a] = ghost.pre_company[g][a]

C11_Witness ==
    /\ result.op = "make_decision"
    /\ result.returned = "True"
    /\ ghost.decision_type = "quality_improvement"
    /\ Len(ghost.pre_log) >= 1
    /\ company.operations_data.quality # ghost.pre_company.operations_data.quality

\* C12: whatever numeric parameters the make_decision calls were given, the
\* company's market_share is within [0, 0.5] and its quality within [0, 1].
C12_ShareAndQualityBounded ==
    /\ 0 <= company.market_data.market_share
    /\ company.market_data.market_share <= BP \div 2
    /\ 0 <= company.operations_data.quality
    /\ company.operations_data.quality <= BP

\* C13: after an update_state call the capacity utilization and the
\* customer_satisfaction of the company are both within [0, 1].
C13_UtilizationAndSatisfactionBounded ==
    result.op = "update_state" =>
        /\ 0 <= company.operations_data.utilization
        /\ company.operations_data.utilization <= BP
        /\ 0 <= company.operations_data.customer_satisfaction
        /\ company.operations_data.customer_satisfaction <= BP

\* C14: after an update_state call, and so at the end of every run_round
\* that returned, the profit of the company is its revenue minus its costs.
C14_ProfitIsRevenueMinusCosts ==
    (RoundReturned \/ result.op = "update_state") =>
        company.financial_data.profit =
            company.financial_data.revenue - company.financial_data.costs

C14_Witness ==
    /\ RoundReturned
    /\ result.round_results.profit #
            result.round_results.revenue - result.round_results.costs
    /\ company.financial_data.revenue # InitialCompany.financial_data.revenue

\* C15: initialize_simulation, in whatever state the engine is, leaves the
\* round counter and current_state.round_number at 0, no active event and no
\* event history, the player company at its initial values with an empty
\* decision log, no events in the state and exactly one snapshot, that of the
\* initial state, in simulation_history; the event definitions are all kept.
C15_InitializeResets ==
    result.op = "initialize_simulation" =>
        /\ initialized
        /\ current_round = 0
        /\ state.round_number = 0
        /\ active_events = <<>>
        /\ event_history = <<>>
        /\ company = InitialCompany
        /\ decision_history = <<>>
        /\ performance_history = <<>>
        /\ state.events = <<>>
        /\ Len(simulation_history) = 1
        /\ simulation_history[1].round_number = 0
        /\ simulation_history[1].player_company = InitialCompany
        /\ simulation_history[1].events = <<>>
        /\ {event_definitions[i].id : i \in 1..Len(event_definitions)} = EventIds

C15_Witness ==
    /\ result.op = "initialize_simulation"
    /\ ghost.before.current_round = max_rounds
    /\ ghost.before.active >= 1
    /\ ghost.before.snapshots >= 2

\* C16: applying a combined impact mapping multiplies revenue, costs, profit
\* and every other metric but two by (1 + impact), adds the impact to
\* market_share and customer_satisfaction and clamps them to [0, 1], leaves a
\* metric without an impact as it was, and ignores an impact key that is no
\* metric of the results.
C16_ImpactsApplied ==
    result.op = "_apply_event_impacts" =>
        LET old == result.round_results
            impact == result.event_impacts
            new == result.value
        IN /\ DOMAIN new = DOMAIN old
           /\ \A k \in DOMAIN old :
                 new[k] =
                    IF k \notin DOMAIN impact THEN old[k]
                    ELSE IF k \in {"market_share", "customer_satisfaction"}
                    THEN IF old[k] + 100 * impact[k] < 0 THEN 0
                         ELSE IF old[k] + 100 * impact[k] > BP THEN BP
                         ELSE old[k] + 100 * impact[k]
                    ELSE (old[k] * (100 + impact[k])) \div 100

C16_Witness ==
    /\ result.op = "_apply_event_impacts"
    /\ DOMAIN result.event_impacts = {"market_share", "demand"}
    /\ result.round_results.market_share > 0
    /\ result.value.market_share = 0

\* C19: the conditions of an event hold at round r exactly when r equals the
\* 'round' entry, is at least the 'min_round' entry and at most the
\* 'max_round' entry, each where present; other keys have no influence and
\* an empty mapping holds at every round.
C19_ConditionGrammar ==
    result.op = "_check_conditions" =>
        LET c == result.conditions
            r == result.round_number
            known == [k \in DOMAIN c \cap {"round", "min_round", "max_round"} |-> c[k]]
        IN /\ result.value <=>
                /\ ("round" \notin DOMAIN c \/ r = c["round"])
                /\ ("min_round" \notin DOMAIN c \/ r >= c["min_round"])
                /\ ("max_round" \notin DOMAIN c \/ r <= c["max_round"])
           /\ result.value <=> CheckConditions(known, r)
           /\ CheckConditions(NoConditions, r)

C19_Witness ==
    /\ result.op = "_check_conditions"
    /\ DOMAIN result.conditions = {"min_round", "max_round", "season"}
    /\ result.round_number = result.conditions["min_round"]
    /\ result.value

\* the kinds process_decisions has a handler for
C17_Recognised == {"pricing", "investment", "marketing"}

\* C17: a decision kind the round manager does not recognise gets the entry
\* {status: unknown_decision_type} and never makes run_round fail: the round
\* completes, the processed decisions have one entry per submitted kind, and
\* the recognised kinds are processed as if the others were absent.
C17_UnknownKindsEchoed ==
    (initialized /\ result.op = "run_round") =>
        LET d == ghost.decisions
            known == DOMAIN d \cap C17_Recognised
            alone == [k \in known |-> d[k]]
            processed == ghost.processed
        IN /\ (\A k \in known : \A param \in DOMAIN d[k] : d[k][param].isnum)
                => result.status = "ok"
           /\ result.status = "ok" =>
                /\ current_round = result.round_number
                /\ state.round_number = result.round_number
                /\ Len(simulation_history) = 1 + ghost.completed
                /\ DOMAIN processed.results = DOMAIN d
                /\ processed.decisions_processed = Cardinality(DOMAIN d)
                /\ \A k \in DOMAIN d \ known :
                      processed.results[k] = [status |-> "unknown_decision_type"]
                /\ \A k \in known :
                      processed.results[k] =
                        ProcessDecisions(alone, result.round_number).value.results[k]

C17_Witness ==
    /\ RoundReturned
    /\ {"pricing", "capacity_expansion"} \subseteq DOMAIN ghost.decisions
    /\ ghost.processed.results["capacity_expansion"].status = "unknown_decision_type"
    /\ ghost.completed >= 2

\* C20: between two initialize_simulation calls current_state.round_number
\* never decreases, a run_round that returns while it is below max_rounds
\* raises it by exactly 1, and after a run_round that returns the returned
\* round_number, current_state.round_number, the round manager's current
\* round and the market's round_number are equal.
C20_RoundNumberInStep ==
    [][(initialized /\ result'.op = "run_round")
        => /\ state'.round_number >= state.round_number
           /\ result'.status = "ok" =>
                /\ state.round_number < max_rounds
                      => state'.round_number = state.round_number + 1
                /\ state'.round_number = result'.round_number
                /\ current_round' = result'.round_number
                /\ market'.round_number = result'.round_number]_vars

\* the definitions among defs that satisfy P, as a set
C18_Those(defs, P(_)) == {defs[i] : i \in {j \in 1..Len(defs) : P(defs[j])}}

C18_Range(s) == {s[i] : i \in 1..Len(s)}

\* C18: process_scheduled_events(r) returns exactly the SCHEDULED definitions
\* whose conditions hold at r (of the default definitions regulatory_change,
\* and only at r = 5), generate_random_events(r) returns only RANDOM
\* definitions whose conditions hold at r, neither returns a DECISION
\* definition, and both leave the active list, the event history and the
\* definitions as they were.
C18_EventQueries ==
    LET r == result.round_number
        returned == C18_Range(result.value)
        holds(event) == CheckConditions(event.conditions, r)
        untouched == /\ active_events = ghost.prev.active
                     /\ event_history = ghost.prev.history
                     /\ event_definitions = ghost.prev.definitions
    IN /\ result.op = "process_scheduled_events" =>
            /\ returned = C18_Those(event_definitions,
                            LAMBDA e : e.type = "scheduled" /\ holds(e))
            /\ Len(result.value) = Cardinality(returned)
            /\ event_definitions = DefaultEvents =>
                  result.value = IF r = 5
                                 THEN <<EventDefinitions["regulatory_change"]>>
                                 ELSE <<>>
            /\ \A e \in returned : e.type # "decision"
            /\ untouched
       /\ result.op = "generate_random_events" =>
            /\ returned \subseteq C18_Those(event_definitions,
                            LAMBDA e : e.type = "random" /\ holds(e))
            /\ \A e \in returned : e.type # "decision"
            /\ untouched

C18_Witness ==
    /\ result.op = "process_scheduled_events"
    /\ result.round_number = 5
    /\ Len(result.value) = 1
    /\ \E i \in 1..Len(event_definitions) : event_definitions[i].type = "decision"
    /\ Len(active_events) >= 1

\* the demand at another price, all else as in the last calculate_demand
C21_DemandAt(price) ==
    CalculateDemand(price, result.market_state, result.company_factors)

C22_RunRoundInFlight == {r \in DOMAIN requests : requests[r].pc = "in_round"}
C22_RoundsSerialized == Cardinality(C22_RunRoundInFlight) <= 1


\* C23: an event of duration d >= 1 triggered in round r lasts d rounds: in
\* every round from r to r+d-1 its instance is among the active events the
\* round's combined impacts are collected from, and its impact metrics are
\* part of those impacts.  (Stated for rounds the counter actually reached:
\* the call returned the round number of its own advance.)
C23_InItsRounds(h, round_number) ==
    /\ EventDefinitions[h.event_id].duration >= 1
    /\ h.triggered_round <= round_number
    /\ round_number <= h.triggered_round + EventDefinitions[h.event_id].duration - 1
C23_Contributes(h) ==
    /\ \E i \in DOMAIN active_events :
          /\ active_events[i].event.id = h.event_id
          /\ active_events[i].triggered_round = h.triggered_round
    /\ DOMAIN EventDefinitions[h.event_id].impact \subseteq DOMAIN ghost.event_impacts
C23_EventLastsItsDuration ==
    (RoundReturned /\ ghost.advances = result.round_number) =>
        \A k \in DOMAIN event_history :
            C23_InItsRounds(event_history[k], result.round_number)
                => C23_Contributes(event_history[k])

\* C24: no partial-round rollback: a run_round call that raises while
\* processing a malformed decision parameter leaves the round counter
\* advanced, takes back no triggered event (the active events and the event
\* history are as the call found them), appends no snapshot and leaves the
\* engine initialized, so that further run_round calls are accepted.
C24_Raised == result'.op = "run_round" /\ result'.status = "TypeError"
C24_NoRollback ==
    [][C24_Raised =>
        /\ current_round' = AdvanceRound(current_round, max_rounds)
        /\ active_events' = active_events
        /\ event_history' = event_history
        /\ simulation_history' = simulation_history
        /\ initialized']_vars

\* a run_round call returned after an earlier one had raised and had moved
\* the round counter
C24_Witness ==
    /\ RoundReturned
    /\ ghost.calls > ghost.completed
    /\ ghost.advances > ghost.completed
    /\ result.round_number = 2
    /\ Len(simulation_history) = 2

\* C25: after any sequence of update_competitor_actions calls every
\* competitor has market_share within [0.01, 0.5], quality within [0, 1] and
\* a price that is not negative.
C25_CompetitorsInRange ==
    \A i \in DOMAIN market.competitors :
        /\ market.competitors[i].market_share >= 100
        /\ market.competitors[i].market_share <= 5000
        /\ market.competitors[i].quality >= 0
        /\ market.competitors[i].quality <= BP
        /\ market.competitors[i].price >= 0

\* C26: when a competitor reacts to a price gap with the player larger than 5,
\* its price after the reaction is no further from the player's price than
\* before.
C26_Reacted(i) ==
    /\ result.op = "update_competitor_actions"
    /\ Abs(ghost.player_price - ghost.prev[i].price) > 5000
    /\ market.competitors[i].last_decision[1].price_change # 0
C26_GapNeverGrows ==
    \A i \in DOMAIN market.competitors :
        (result.op = "update_competitor_actions" /\ C26_Reacted(i)) =>
            Abs(ghost.player_price - market.competitors[i].price)
                <= Abs(ghost.player_price - ghost.prev[i].price)

\* C27: between two initialize_simulation calls a SCHEDULED event whose
\* condition is an exact round number is triggered at most once, run_round
\* calls after the end of the simulation included: the event history, which
\* initialize_simulation empties, has at most one record of it.
C27_ExactRound(event) ==
    event.type = "scheduled" /\ "round" \in DOMAIN event.conditions
C27_ScheduledOnce ==
    \A i \in DOMAIN event_definitions :
        C27_ExactRound(event_definitions[i]) =>
            Cardinality({k \in DOMAIN event_history :
                event_history[k].event_id = event_definitions[i].id}) <= 1

\* C28: a definition that still has an active instance is not triggered
\* again: the active list never holds two instances of one definition, and
\* the combined impacts of a round count every active definition once.
C28_ActiveIds == {active_events[i].event.id : i \in DOMAIN active_events}
C28_CountedOnce(metric) ==
    SumOver({id \in C28_ActiveIds : metric \in DOMAIN EventDefinitions[id].impact},
            [id \in EventIds |->
                IF metric \in DOMAIN EventDefinitions[id].impact
                THEN EventDefinitions[id].impact[metric] ELSE 0])
C28_OneInstancePerDefinition ==
    /\ \A i, j \in DOMAIN active_events :
          active_events[i].event.id = active_events[j].event.id => i = j
    /\ RoundReturned =>
          \A metric \in DOMAIN ghost.event_impacts :
              ghost.event_impacts[metric] = C28_CountedOnce(metric)

\* C29: in a round in which no active event carries a market_share impact,
\* run_round leaves the player company's market_share at the value it had
\* before the round.
C29_MarketShareKept ==
    (RoundReturned /\ "market_share" \notin DOMAIN ghost.event_impacts) =>
        company.market_data.market_share
            = ghost.pre_company.market_data.market_share

\* C30: in the round_results every run_round call returns, profit equals
\* revenue minus costs, whatever events are active in the round.
C30_RoundProfitIsRevenueMinusCosts ==
    RoundReturned =>
        result.round_results.profit
            = result.round_results.revenue - result.round_results.costs
=============================================================================
